---- MODULE Spec2Model ----
(***************************************************************************)
(* A model of the QOA decoder Qoa::parse (src/qoa.cpp).                    *)
(*                                                                         *)
(* The input is a byte stream. Every loop iteration of the parser that     *)
(* reads the stream or produces a sample is one action. Unsigned words the *)
(* code reads with is.read(reinterpret_cast<char *>(&x), n) are modelled   *)
(* by their object representation (the bytes in memory, in address order)  *)
(* and by their value, written as the tuple of its base-256 digits, most   *)
(* significant first; the build's byte order relates the two.              *)
(***************************************************************************)
EXTENDS Integers, Sequences, FiniteSets, TLC

VARIABLES
    endian,         \* std::endian::native of the build: "little" or "big"
    input,          \* how the stream was laid out (total, frames, cut); never read by the parser
    stream,         \* the bytes of the std::istream
    pos,            \* number of bytes the parser has consumed
    pc,             \* the parser's position in Qoa::parse
    sample_count,   \* Qoa::parse: sample_count
    frame_count,    \* Qoa::parse: frame_count
    frame_idx,      \* Qoa::parse: frame_idx
    frame_start,    \* value of pos when the current frame's header was read
    last_frame,     \* Qoa::parse: last_frame (equal to *frame_hdr inside the loop body)
    channel_count,  \* Qoa::parse: std::optional<std::uint8_t> channel_count
    lms_state,      \* Qoa::parse: lms_state, a sequence of LmsState
    i,              \* slice loop index
    ch,             \* channel loop index
    slice,          \* the 64-bit slice word, as 8 digits
    scale_factor,   \* the dequantized scale factor of the slice
    k,              \* number of residuals of the slice already decoded
    output,         \* the std::array of 2 per-channel sample vectors
    stray,          \* what writes through output[ch], ch >= 2, left outside the array
    ub,             \* the undefined behaviour the run has executed, or "none"
    result          \* "none" while parsing, "nullopt", "crash", or the returned Qoa

vars == <<endian, input, stream, pos, pc, sample_count, frame_count, frame_idx,
          frame_start, last_frame, channel_count, lms_state, i, ch, slice,
          scale_factor, k, output, stray, ub, result>>

----------------------------------------------------------------------------
(* Bounds of the model *)

\* frames laid out in a generated stream
MaxFrames == 2
\* bytes removed from the end of a generated stream
MaxCut == 1

----------------------------------------------------------------------------
(* Integer helpers *)

Pow2(n) == 2 ^ n

RECURSIVE ToInt(_)
\* the number a tuple of base-256 digits (most significant first) denotes
ToInt(digits) ==
    IF digits = <<>> THEN 0
    ELSE ToInt(SubSeq(digits, 1, Len(digits) - 1)) * 256 + digits[Len(digits)]

Reverse(s) == [j \in 1 .. Len(s) |-> s[Len(s) + 1 - j]]

\* conversion of an int to std::int16_t (modular, C++20)
ToInt16(x) == ((x + 32768) % 65536) - 32768

\* the value of an object from its bytes in memory
FromMemory(mem, e) == IF e = "little" THEN Reverse(mem) ELSE mem

\* bit b (0 = least significant) of a value given by its digits
BitOf(digits, b) ==
    IF b \div 8 >= Len(digits) THEN 0
    ELSE (digits[Len(digits) - (b \div 8)] \div Pow2(b % 8)) % 2

RECURSIVE ShiftRightLow(_, _, _)
\* the low `width` bits of (value >> shift)
ShiftRightLow(digits, shift, width) ==
    IF width = 0 THEN 0
    ELSE ShiftRightLow(digits, shift, width - 1)
         + BitOf(digits, shift + width - 1) * Pow2(width - 1)

\* util::net_pack<T>: out's byte at address n is (in >> ((sizeof(T) - n - 1) * 8)),
\* so out's memory holds in's digits, most significant first
net_pack(in, e) ==
    FromMemory([n \in 1 .. Len(in) |-> ShiftRightLow(in, (Len(in) - n) * 8, 8)], e)

----------------------------------------------------------------------------
(* IEEE-754 binary32 arithmetic on non-negative values, as far as the      *)
(* frame-count expression needs it. A float is [m, e], denoting m * 2^e,   *)
(* with m = 0 or 2^23 <= m < 2^24.                                         *)

RECURSIVE FloatRound(_, _, _, _)
\* the float nearest to (q + r/den) * 2^e, ties to even; 0 <= r < den
FloatRound(q, r, den, e) ==
    IF q = 0 /\ r = 0 THEN [m |-> 0, e |-> 0]
    ELSE IF q >= Pow2(24)
         THEN FloatRound(q \div 2, (q % 2) * den + r, 2 * den, e + 1)
    ELSE IF q < Pow2(23)
         THEN FloatRound(2 * q + ((2 * r) \div den), (2 * r) % den, den, e - 1)
    ELSE LET up == (2 * r > den) \/ (2 * r = den /\ q % 2 = 1)
         IN  IF ~up THEN [m |-> q, e |-> e]
             ELSE IF q + 1 = Pow2(24) THEN [m |-> Pow2(23), e |-> e + 1]
             ELSE [m |-> q + 1, e |-> e]

\* conversion of an unsigned integer to float
IntToFloat(n) == FloatRound(n, 0, 1, 0)

\* x / d for a float x and a float d whose value is the integer d
FloatDiv(x, d) == FloatRound(x.m \div d, x.m % d, d, x.e)

\* x + y
FloatAdd(x, y) ==
    IF x.m = 0 THEN y
    ELSE IF y.m = 0 THEN x
    ELSE LET hi == IF x.e >= y.e THEN x ELSE y
             lo == IF x.e >= y.e THEN y ELSE x
             d  == hi.e - lo.e
         IN  IF d > 29 THEN hi
             ELSE FloatRound(hi.m + (lo.m \div Pow2(d)), lo.m % Pow2(d), Pow2(d), hi.e)

\* the literal 0.5f
FloatHalf == [m |-> Pow2(23), e |-> -24]

\* std::round (halfway cases away from zero), then conversion to std::uint32_t
FloatRoundToInt(x) ==
    IF x.e >= 0 THEN x.m * Pow2(x.e)
    ELSE IF -x.e >= 25 THEN 0
    ELSE LET q == x.m \div Pow2(-x.e)
             r == x.m % Pow2(-x.e)
         IN  IF 2 * r >= Pow2(-x.e) THEN q + 1 ELSE q

\* std::round(sample_count / 256.f / 20.f + 0.5f)
FrameCount(n) ==
    FloatRoundToInt(FloatAdd(FloatDiv(FloatDiv(IntToFloat(n), 256), 20), FloatHalf))

----------------------------------------------------------------------------
(* Dequantization *)

\* std::round(std::pow(sf_quant + 1, 2.75f)) for sf_quant = 0 .. 15
ScaleFactorTable ==
    <<1, 7, 21, 45, 84, 138, 211, 304, 421, 562, 731, 928, 1157, 1419, 1715, 2048>>

\* static_cast<uint8_t>(slice >> (64 - 4))
SfQuant(w) == ShiftRightLow(w, 60, 8)

DequantScaleFactor(sf_quant) == ToInt16(ScaleFactorTable[sf_quant + 1])

\* kDequantTable, each entry times 4 (all entries are multiples of 0.25)
kDequantTable4 == <<3, -3, 10, -10, 18, -18, 28, -28>>

\* the fields taken from the low end of the word: residual = slice & 0b111; slice >>= 3
ResidualIndex_LowFirst(w, n) == ShiftRightLow(w, 3 * n, 3)

\* residual = (slice >> (64 - offset)) & 0b111, offset = 4 + 3 * (n + 1)
ResidualIndex(w, n) == ShiftRightLow(w, 64 - (4 + 3 * (n + 1)), 3)

\* r: scale_factor * kDequantTable.at(residual), rounded to nearest, ties away
\* from zero (the product is exact in float: it is a multiple of 0.25 below 2^15)
DequantResidual(sf, residual) ==
    LET r4 == sf * kDequantTable4[residual + 1]
    IN  IF r4 < 0 THEN -((2 - r4) \div 4) ELSE (r4 + 2) \div 4

----------------------------------------------------------------------------
(* The LMS predictor *)

\* the int sum of the four products, shifted right by 13, computed without
\* leaving 32 bits: each product is split as 8192 * a + b, 0 <= b < 8192
PredictWide(lms) ==
    LET prod(j) == lms.history[j] * lms.weights[j]
        a == (prod(1) \div 8192) + (prod(2) \div 8192)
             + (prod(3) \div 8192) + (prod(4) \div 8192)
        b == (prod(1) % 8192) + (prod(2) % 8192) + (prod(3) % 8192) + (prod(4) % 8192)
    IN  a + (b \div 8192)

\* the sum of the products leaves the range of int: signed overflow
PredictOverflows(lms) ==
    PredictWide(lms) < -262144 \/ PredictWide(lms) > 262143

\* int16_t p = [&] { return (...) >> 13; }();
Predict(lms) == ToInt16(PredictWide(lms))

Clamp(x, lo, hi) == IF x < lo THEN lo ELSE IF x > hi THEN hi ELSE x

\* static_cast<std::int16_t>(std::clamp(r + p, -32768, 32767))
Reconstruct(lms, r) == ToInt16(Clamp(r + Predict(lms), -32768, 32767))

\* int16_t delta = r >> 4;
Delta(r) == ToInt16(r \div 16)

\* lms.weights[j] += static_cast<std::int16_t>(lms.history[j] < 0 ? -delta : delta)
UpdateWeight(w, h, delta) == ToInt16(w + ToInt16(IF h < 0 THEN -delta ELSE delta))

\* the history shifted before the weights are updated from it
LmsUpdate_ShiftFirst(lms, r, sample) ==
    LET shifted == <<lms.history[2], lms.history[3], lms.history[4], sample>>
    IN  [history |-> shifted,
         weights |-> [j \in 1 .. 4 |-> UpdateWeight(lms.weights[j], shifted[j], Delta(r))]]

\* the state of a channel after a sample: weights updated from the history as it
\* was, then the history shifted and the sample appended
LmsUpdate(lms, r, sample) ==
    [history |-> <<lms.history[2], lms.history[3], lms.history[4], sample>>,
     weights |-> [j \in 1 .. 4 |-> UpdateWeight(lms.weights[j], lms.history[j], Delta(r))]]

----------------------------------------------------------------------------
(* The wire format: how the streams given to the parser are laid out *)

RECURSIVE Flatten(_)
Flatten(ss) == IF ss = <<>> THEN <<>> ELSE Head(ss) \o Flatten(Tail(ss))

\* ceil(a / b)
CeilDiv(a, b) == (a + b - 1) \div b

BE16(v) == LET u == (v + 65536) % 65536 IN <<u \div 256, u % 256>>

BE32(v) == <<v \div 16777216, (v \div 65536) % 256, (v \div 256) % 256, v % 256>>

\* 'q', 'o', 'a', 'f'
Magic == <<113, 111, 97, 102>>

BadMagic == <<113, 111, 97, 103>>

\* predictor states a frame can carry
LmsChoices ==
    << [history |-> <<0, 0, 0, 0>>, weights |-> <<0, 0, -8192, 16384>>],
       [history |-> <<1, -2, 3, -4>>, weights |-> <<32767, -32768, 100, -100>>],
       [history |-> <<0, 0, 0, 32767>>, weights |-> <<0, 0, 0, 32767>>],
       [history |-> <<-32768, -32768, -32768, -32768>>,
        weights |-> <<-32768, -32768, -32768, -32768>>] >>

\* slices a frame can carry
SliceChoices ==
    << <<0, 0, 0, 0, 0, 0, 0, 0>>,
       <<255, 136, 198, 250, 80, 57, 119, 1>>,
       <<122, 83, 25, 164, 7, 238, 192, 93>> >>

\* sample-rate byte triples a frame header can carry (44100 is 0, 172, 68)
RateChoices == {<<0, 172, 68>>, <<1, 0, 0>>, <<0, 1, 0>>, <<0, 0, 1>>, <<127, 255, 255>>}

\* total sample counts a container header can carry
TotalChoices == {0, 10, 20, 5120, 5121}

EncodeLms(l) ==
    Flatten([j \in 1 .. 4 |-> BE16(l.history[j])]) \o Flatten([j \in 1 .. 4 |-> BE16(l.weights[j])])

\* the slice groups of a frame: ceil(sample_count / 20)
SliceGroups(f) == CeilDiv(f.sc, 20)

\* one frame: header, one predictor state per channel, the slices
EncodeFrame(f) ==
    LET n == SliceGroups(f) * f.c
    IN  <<f.c>> \o f.rate \o BE16(f.sc) \o BE16(8 + 16 * f.c + 8 * n)
        \o Flatten([c \in 1 .. f.c |->
                      EncodeLms(LmsChoices[((f.lms + c - 1) % Len(LmsChoices)) + 1])])
        \o Flatten([s \in 1 .. n |->
                      SliceChoices[((f.sl + ((s - 1) \div f.c) + ((s - 1) % f.c))
                                    % Len(SliceChoices)) + 1]])

\* the whole file, with its last p.cut bytes removed
Layout(p) ==
    LET full == p.magic \o BE32(p.total) \o Flatten([n \in 1 .. Len(p.frames) |-> EncodeFrame(p.frames[n])])
    IN  SubSeq(full, 1, Len(full) - p.cut)

SeqsUpTo(S, n) == UNION {[1 .. m -> S] : m \in 0 .. n}

FrameParams(cs, rates, scs, lmss, sls) ==
    [c : cs, rate : rates, sc : scs, lms : lmss, sl : sls]

DefaultRate == <<0, 172, 68>>

\* the streams the parser is run on
Inputs ==
    \* any number of frames against any total, whole or truncated
    [magic : {Magic}, total : TotalChoices,
     frames : SeqsUpTo(FrameParams({1, 2}, {DefaultRate}, {0, 10, 20}, {0}, {0}), MaxFrames),
     cut : 0 .. MaxCut]
    \cup
    \* one frame, every predictor state and slice
    {[magic |-> Magic, total |-> f.sc, frames |-> <<f>>, cut |-> 0] :
        f \in FrameParams({1, 2}, {DefaultRate}, {20, 40},
                          0 .. Len(LmsChoices) - 1, 0 .. Len(SliceChoices) - 1)}
    \cup
    \* one frame, every sample rate and channel count
    {[magic |-> Magic, total |-> f.sc, frames |-> <<f>>, cut |-> 0] :
        f \in FrameParams({0, 1, 2, 3}, RateChoices, {0, 20}, {0}, {1})}
    \cup
    \* two frames without slices, of any two channel counts
    [magic : {Magic}, total : {5120},
     frames : [1 .. 2 -> FrameParams({0, 1, 2, 3}, {DefaultRate}, {0}, {0}, {0})],
     cut : {0}]
    \cup
    \* container headers: wrong magic, and every prefix of a header
    [magic : {Magic, BadMagic}, total : {0}, frames : {<<>>}, cut : 0 .. 8]

----------------------------------------------------------------------------
(* Parsing *)

Avail(n) == Len(stream) - pos >= n

Bytes(n) == SubSeq(stream, pos + 1, pos + n)

\* a value read into an object of the build and converted where the code does:
\* if constexpr (std::endian::native != std::endian::big) x = util::net_pack(x)
HostValue(mem, e) ==
    IF e # "big" THEN net_pack(FromMemory(mem, e), e) ELSE FromMemory(mem, e)

\* sizeof(s.history.size() * 2): the size of a std::size_t, on a 64-bit build
SizeofSizeT == 8

\* FrameHeader::parse, on the 8 bytes it reads
FrameHeaderParse(b, e) ==
    [channel_count |-> b[1],
     sample_rate   |-> ToInt(HostValue(<<b[2], b[3], b[4], 0>>, e)),
     sample_count  |-> ToInt(HostValue(<<b[5], b[6]>>, e)),
     size          |-> ToInt(HostValue(<<b[7], b[8]>>, e))]

\* an array of four int16 after is.read of n bytes into its zeroed storage
ReadInt16x4(b, n, e) ==
    LET mem == [a \in 1 .. 8 |-> IF a <= n THEN b[a] ELSE 0]
    IN  [j \in 1 .. 4 |-> ToInt16(ToInt(HostValue(<<mem[2 * j - 1], mem[2 * j]>>, e)))]

\* LmsState::parse, on the bytes it reads
LmsStateParse(b, e) ==
    [history |-> ReadInt16x4(SubSeq(b, 1, SizeofSizeT), SizeofSizeT, e),
     weights |-> ReadInt16x4(SubSeq(b, SizeofSizeT + 1, 2 * SizeofSizeT), SizeofSizeT, e)]

\* slice = util::net_pack(slice), on every build
SliceParse(b, e) == net_pack(FromMemory(b, e), e)

NoChannelCount == [has_value |-> FALSE, value |-> 0]

NoResult == [kind |-> "none", audio_frames |-> <<>>, sample_rate |-> 0, nbr_channels |-> 0]

Nullopt == [NoResult EXCEPT !.kind = "nullopt"]

Crash == [NoResult EXCEPT !.kind = "crash"]

----------------------------------------------------------------------------
(* Qoa::parse *)

Init ==
    /\ endian \in {"little", "big"}
    /\ input \in Inputs
    /\ stream = Layout(input)
    /\ pos = 0
    /\ pc = "magic"
    /\ sample_count = 0
    /\ frame_count = 0
    /\ frame_idx = 0
    /\ frame_start = 0
    /\ last_frame = [channel_count |-> 0, sample_rate |-> 0, sample_count |-> 0, size |-> 0]
    /\ channel_count = NoChannelCount
    /\ lms_state = <<>>
    /\ i = 0
    /\ ch = 0
    /\ slice = <<0, 0, 0, 0, 0, 0, 0, 0>>
    /\ scale_factor = 0
    /\ k = 0
    /\ output = <<<<>>, <<>>>>
    /\ stray = <<>>
    /\ ub = "none"
    /\ result = NoResult

\* return std::nullopt, with the stream left at position p
ReturnNullopt(p) ==
    /\ pc' = "done"
    /\ result' = Nullopt
    /\ pos' = p

\* a failed is.read has consumed what was left of the stream
ReadFails == ReturnNullopt(Len(stream))

\* the loops of a frame are over: ++frame_idx
NextFrame ==
    /\ pc' = "frame"
    /\ frame_idx' = frame_idx + 1
    /\ i' = 0
    /\ ch' = 0

\* the slice loops of a frame with c channels and sc samples begin
EnterSlices(c, sc) ==
    IF sc \div 20 > 0 /\ c > 0
    THEN /\ pc' = "slice"
         /\ i' = 0
         /\ ch' = 0
         /\ UNCHANGED frame_idx
    ELSE NextFrame

\* lines 112-117
ReadMagic ==
    /\ pc = "magic"
    /\ IF ~Avail(4) THEN ReadFails
       ELSE IF Bytes(4) # Magic THEN ReturnNullopt(pos + 4)
       ELSE /\ pc' = "count"
            /\ pos' = pos + 4
            /\ UNCHANGED result
    /\ UNCHANGED <<endian, input, stream, sample_count, frame_count, frame_idx,
                   frame_start, last_frame, channel_count, lms_state, i, ch, slice,
                   scale_factor, k, output, stray, ub>>

\* lines 119-128
ReadSampleCount ==
    /\ pc = "count"
    /\ IF ~Avail(4)
       THEN /\ ReadFails
            /\ UNCHANGED <<sample_count, frame_count>>
       ELSE /\ sample_count' = ToInt(HostValue(Bytes(4), endian))
            /\ frame_count' = FrameCount(sample_count')
            /\ pc' = "frame"
            /\ pos' = pos + 4
            /\ UNCHANGED result
    /\ UNCHANGED <<endian, input, stream, frame_idx, frame_start, last_frame,
                   channel_count, lms_state, i, ch, slice, scale_factor, k, output,
                   stray, ub>>

\* the check rejecting only a header that declares fewer channels
ChannelCountDiffers_OnlyFewer(cc, frame_hdr) ==
    cc.has_value /\ cc.value > frame_hdr.channel_count

\* lines 140-144: a channel count is already set and the header's differs
ChannelCountDiffers(cc, frame_hdr) ==
    cc.has_value /\ cc.value # frame_hdr.channel_count

\* lines 134-146, and the loop conditions that follow when there is nothing to read
ParseFrameHeader ==
    /\ pc = "frame"
    /\ frame_idx < frame_count
    /\ IF ~Avail(8)
       THEN /\ ReadFails
            /\ UNCHANGED <<frame_idx, frame_start, last_frame, channel_count,
                           lms_state, i, ch>>
       ELSE LET frame_hdr == FrameHeaderParse(Bytes(8), endian)
            IN  /\ last_frame' = frame_hdr
                /\ frame_start' = pos
                /\ IF ChannelCountDiffers(channel_count, frame_hdr)
                   THEN /\ ReturnNullopt(pos + 8)
                        /\ UNCHANGED <<frame_idx, channel_count, lms_state, i, ch>>
                   ELSE /\ channel_count' =
                              IF channel_count.has_value THEN channel_count
                              ELSE [has_value |-> TRUE, value |-> frame_hdr.channel_count]
                        /\ lms_state' = <<>>
                        /\ pos' = pos + 8
                        /\ UNCHANGED result
                        /\ IF channel_count'.value > 0
                           THEN /\ pc' = "lms"
                                /\ ch' = 0
                                /\ UNCHANGED <<frame_idx, i>>
                           ELSE EnterSlices(channel_count'.value, frame_hdr.sample_count)
    /\ UNCHANGED <<endian, input, stream, sample_count, frame_count, slice,
                   scale_factor, k, output, stray, ub>>

\* lines 147-153: one iteration
ParseLms ==
    /\ pc = "lms"
    /\ IF ~Avail(2 * SizeofSizeT)
       THEN /\ ReadFails
            /\ UNCHANGED <<frame_idx, lms_state, i, ch>>
       ELSE /\ lms_state' = Append(lms_state, LmsStateParse(Bytes(2 * SizeofSizeT), endian))
            /\ pos' = pos + 2 * SizeofSizeT
            /\ UNCHANGED result
            /\ IF ch + 1 < channel_count.value
               THEN /\ ch' = ch + 1
                    /\ UNCHANGED <<pc, frame_idx, i>>
               ELSE EnterSlices(channel_count.value, last_frame.sample_count)
    /\ UNCHANGED <<endian, input, stream, sample_count, frame_count, frame_start,
                   last_frame, channel_count, slice, scale_factor, k, output, stray, ub>>

\* lines 158-174
ReadSlice ==
    /\ pc = "slice"
    /\ IF ~Avail(8)
       THEN /\ ReadFails
            /\ UNCHANGED <<slice, scale_factor, k>>
       ELSE /\ slice' = SliceParse(Bytes(8), endian)
            /\ scale_factor' = DequantScaleFactor(SfQuant(slice'))
            /\ k' = 0
            /\ pc' = "sample"
            /\ pos' = pos + 8
            /\ UNCHANGED result
    /\ UNCHANGED <<endian, input, stream, sample_count, frame_count, frame_idx,
                   frame_start, last_frame, channel_count, lms_state, i, ch, output,
                   stray, ub>>

\* the r of the residual about to be decoded
CurrentR == DequantResidual(scale_factor, ResidualIndex(slice, k))

\* output[c].push_back(sample): inside the array for c < 2, outside it otherwise
PushBack(c, sample) ==
    IF c < 2
    THEN /\ output' = [output EXCEPT ![c + 1] = Append(@, sample)]
         /\ UNCHANGED stray
    ELSE /\ stray' = Append(stray, <<c, sample>>)
         /\ UNCHANGED output

\* lines 176-213 for one residual, and the loop conditions that follow
SampleStep ==
    LET lms == lms_state[ch + 1]
        r == CurrentR
        sample == Reconstruct(lms, r)
    IN  /\ PushBack(ch, sample)
        /\ lms_state' = [lms_state EXCEPT ![ch + 1] = LmsUpdate(lms, r, sample)]
        /\ UNCHANGED <<pos, result>>
        /\ IF k + 1 < 20
           THEN /\ k' = k + 1
                /\ UNCHANGED <<pc, frame_idx, i, ch>>
           ELSE /\ k' = 0
                /\ IF ch + 1 < channel_count.value
                   THEN /\ pc' = "slice"
                        /\ ch' = ch + 1
                        /\ UNCHANGED <<frame_idx, i>>
                   ELSE IF i + 1 < last_frame.sample_count \div 20
                   THEN /\ pc' = "slice"
                        /\ ch' = 0
                        /\ i' = i + 1
                        /\ UNCHANGED frame_idx
                   ELSE NextFrame

\* the undefined behaviour the next sample would execute: the int sum of the
\* products overflows, or output[ch] is outside the array of 2
UndefinedAt ==
    IF PredictOverflows(lms_state[ch + 1]) THEN "signed overflow"
    ELSE IF ch >= 2 THEN "out of bounds"
    ELSE "none"

DecodeSample ==
    /\ pc = "sample"
    /\ UndefinedAt = "none"
    /\ SampleStep
    /\ UNCHANGED <<endian, input, stream, sample_count, frame_count, frame_start,
                   last_frame, channel_count, slice, scale_factor, ub>>

\* a sample whose decoding is undefined: the build either stops there, or goes on
\* with the sum wrapped to 32 bits and the write landing outside the array
DecodeSampleUndefined ==
    /\ pc = "sample"
    /\ UndefinedAt # "none"
    /\ ub' = UndefinedAt
    /\ \E goes_on \in BOOLEAN :
          IF goes_on THEN SampleStep
          ELSE /\ pc' = "done"
               /\ result' = Crash
               /\ UNCHANGED <<pos, frame_idx, lms_state, i, ch, k, output, stray>>
    /\ UNCHANGED <<endian, input, stream, sample_count, frame_count, frame_start,
                   last_frame, channel_count, slice, scale_factor>>

\* lines 217-223
Interleaved(out, c) ==
    Flatten([n \in 1 .. Len(out[1]) |->
                IF c = 2 THEN <<out[1][n], out[2][n]>> ELSE <<out[1][n]>>])

\* lines 217-228
Interleave ==
    /\ pc = "frame"
    /\ frame_idx >= frame_count
    /\ IF channel_count.has_value
       THEN /\ result' = [kind |-> "qoa",
                          audio_frames |-> Interleaved(output, channel_count.value),
                          sample_rate |-> last_frame.sample_rate,
                          nbr_channels |-> last_frame.channel_count]
            /\ UNCHANGED ub
       ELSE /\ result' = Crash
            /\ ub' = "empty optional"
    /\ pc' = "done"
    /\ UNCHANGED <<endian, input, stream, pos, sample_count, frame_count, frame_idx,
                   frame_start, last_frame, channel_count, lms_state, i, ch, slice,
                   scale_factor, k, output, stray>>

Next ==
    \/ ReadMagic
    \/ ReadSampleCount
    \/ ParseFrameHeader
    \/ ParseLms
    \/ ReadSlice
    \/ DecodeSample
    \/ DecodeSampleUndefined
    \/ Interleave

Spec == Init /\ [][Next]_vars

----------------------------------------------------------------------------
(* Properties *)

\* the three sample-rate bytes of the last frame header parsed
RateBytes == SubSeq(stream, frame_start + 2, frame_start + 4)

\* C1: a returned Qoa carries the 24-bit big-endian value of the three sample-rate
\* bytes of the last frame header parsed
C1_SampleRateIs24BitValue ==
    result.kind = "qoa"
        => result.sample_rate = RateBytes[1] * 65536 + RateBytes[2] * 256 + RateBytes[3]

\* C2: at the head of the frame loop, the number of frames to decode is
\* ceil(total_sample_count / (256 * 20))
C2_FrameCountIsCeil ==
    pc = "frame" => frame_count = CeilDiv(ToInt(SubSeq(stream, 5, 8)), 256 * 20)

\* C3: when the loops of a frame with s samples and c channels end, the parser
\* has consumed ceil(s / 20) * c slices of 8 bytes after the predictor states
C3_SlicesConsumedIsCeil ==
    (pc = "frame" /\ frame_idx > 0 /\ ub = "none")
        => pos - (frame_start + 8 + 16 * stream[frame_start + 1])
             = 8 * CeilDiv(ToInt(SubSeq(stream, frame_start + 5, frame_start + 6)), 20)
                 * stream[frame_start + 1]

RECURSIVE SumSamples(_)
SumSamples(fs) == IF fs = <<>> THEN 0 ELSE Head(fs).sc + SumSamples(Tail(fs))

\* a file laid out as the wire format says: the magic, the total, ceil(total / 5120)
\* frames of one channel count whose sample counts add up to the total
Conformant(p) ==
    /\ p.magic = Magic
    /\ Len(p.frames) = CeilDiv(p.total, 256 * 20)
    /\ \A m, n \in 1 .. Len(p.frames) : p.frames[m].c = p.frames[n].c
    /\ \A n \in 1 .. Len(p.frames) : p.frames[n].c \in {1, 2}
    /\ SumSamples(p.frames) = p.total

\* C4: a conformant file without its final byte is not decoded
C4_TruncatedConformantFails ==
    (pc = "done" /\ Conformant(input) /\ input.cut = 1) => result = Nullopt

\* C5: whenever the last frame header parsed declares another channel count than
\* the first frame header, the parser has returned nullopt with the stream right
\* after that header
C5_MismatchFailsAtHeader ==
    (channel_count.has_value /\ stream[frame_start + 1] # stream[9])
        => (pc = "done" /\ result = Nullopt /\ pos = frame_start + 8)

\* a second frame header with another channel count was read and rejected
C5_Witness ==
    /\ pc = "done"
    /\ result = Nullopt
    /\ frame_idx >= 1
    /\ frame_start > 8
    /\ stream[frame_start + 1] # stream[9]
    /\ pos < Len(stream)

\* the decoded samples of channel c, wherever the writes went
ChannelSamples(c) ==
    IF c < 2 THEN output[c + 1]
    ELSE LET idx == {n \in 1 .. Len(stray) : stray[n][1] = c}
         IN  [n \in 1 .. Cardinality(idx) |->
                stray[CHOOSE m \in idx : Cardinality({x \in idx : x < m}) = n - 1][2]]

\* C6: a returned Qoa of N channels holds N * L samples, sample n of channel c at
\* index n * N + c
C6_InterleavedAllChannels ==
    result.kind = "qoa"
        => LET N == result.nbr_channels
               L == IF N = 0 THEN 0 ELSE Len(ChannelSamples(0))
           IN  /\ Len(result.audio_frames) = N * L
               /\ \A n \in 0 .. L - 1 : \A c \in 0 .. N - 1 :
                     result.audio_frames[n * N + c + 1] = ChannelSamples(c)[n + 1]

\* a sample is decoded by code whose behaviour is defined
DefinedSampleStep == pc = "sample" /\ UndefinedAt = "none" /\ ub = "none"

\* C7: every sample decoded is clamp(p + r, -32768, 32767), p the sum of the four
\* products shifted right by 13 and not truncated
C7_SampleIsClampOfWidePrediction ==
    [][DefinedSampleStep
         => output'[ch + 1][Len(output'[ch + 1])]
              = Clamp(PredictWide(lms_state[ch + 1]) + CurrentR, -32768, 32767)]_vars

\* r >> 4, arithmetic
ShiftedR == CurrentR \div 16

\* w + (h < 0 ? -delta : delta) as an integer
WeightSum(w, h) == w + (IF h < 0 THEN 0 - ShiftedR ELSE ShiftedR)

\* an integer within 65536 of the int16 range, reduced to it modulo 65536
Wrap16(x) == IF x > 32767 THEN x - 65536 ELSE IF x < -32768 THEN x + 65536 ELSE x

\* the history after a sample, and the other channels
HistoryShiftedOthersKept ==
    LET h == lms_state[ch + 1].history
    IN  /\ lms_state'[ch + 1].history = <<h[2], h[3], h[4], output'[ch + 1][Len(output'[ch + 1])]>>
        /\ Len(lms_state') = Len(lms_state)
        /\ \A c \in 1 .. Len(lms_state) : c # ch + 1 => lms_state'[c] = lms_state[c]

StreamBit(n) == (stream[pos - 7 + (n \div 8)] \div Pow2(7 - (n % 8))) % 2

RECURSIVE StreamField(_, _)
\* the number written in the bits n .. n + width - 1 of the slice
StreamField(n, width) ==
    IF width = 0 THEN 0
    ELSE 2 * StreamField(n, width - 1) + StreamBit(n + width - 1)

\* C9: while a slice is decoded, the scale factor is the one of the first 4 bits of
\* its 8 bytes and residual n is the 3 bits that follow the first 4 + 3 * n bits
C9_SliceFields ==
    pc = "sample"
        => /\ SfQuant(slice) = StreamField(0, 4)
           /\ SfQuant(slice) \in 0 .. 15
           /\ scale_factor = ScaleFactorTable[StreamField(0, 4) + 1]
           /\ \A n \in 0 .. 19 :
                 /\ ResidualIndex(slice, n) = StreamField(4 + 3 * n, 3)
                 /\ ResidualIndex(slice, n) \in 0 .. 7

\* the last residual of a slice with scale-factor index 15 is being decoded, and
\* the slice is not a palindrome of fields
C9_Witness ==
    /\ pc = "sample"
    /\ k = 19
    /\ SfQuant(slice) = 15
    /\ ResidualIndex(slice, 0) # ResidualIndex(slice, 19)
    /\ ResidualIndex(slice, 19) # 0

\* C10: a sample is only ever written to one of the 2 buffers, and the channel
\* count is set when the samples are interleaved
C10_ChannelIndexInRange ==
    /\ pc = "sample" => ch < 2
    /\ (pc = "frame" /\ frame_idx >= frame_count) => channel_count.has_value

====
